---- MODULE Spec2Model ----
(***************************************************************************)
(* Model of GraphSync (storage/graph_sync.py): the provenance graph of     *)
(* memory nodes and typed edges kept in an embedded graph store, and the   *)
(* operations that create nodes, stubs and edges from similarity scores.   *)
(*                                                                         *)
(* Conventions                                                             *)
(*  - text is a sequence of character codes; the empty sequence stands for *)
(*    both None and "" (the code treats the two alike: `not s`, `x or y`); *)
(*  - a timestamp is a positive integer, 0 stands for None / "";           *)
(*  - a similarity score is the float scaled by 10^6 (0.75 = 750000);      *)
(*  - the node table and the edge tables are bags of records;              *)
(*  - every conn.execute of one public call is numbered 1, 2, ... in the   *)
(*    order the call issues them; the set F holds the numbers of the       *)
(*    executions that raise;                                               *)
(*  - _db and _conn hold 0 for None and n for the n-th Database and        *)
(*    Connection object made; opened counts the objects made so far;       *)
(*  - holder is the caller inside the critical section that callers may    *)
(*    put around the operations on one store, 0 when none is.              *)
(***************************************************************************)
EXTENDS Integers, Sequences, FiniteSets, Bags, TLC

VARIABLES nodes, edges, last, req, pc, _db, _conn, opened, holder

vars == <<nodes, edges, last, req, pc, _db, _conn, opened, holder>>

(***************************************************************************)
(* The connection                                                          *)
(***************************************************************************)
\* self._db = None, self._conn = None
Closed == _db = 0 /\ _conn = 0

\* a conn property that makes a new Database and Connection at every use
conn_NoReuse(outcome) ==
  IF outcome = "database" THEN UNCHANGED <<_db, _conn, opened>>
  ELSE /\ opened' = opened + 1
       /\ _db' = opened + 1
       /\ _conn' = IF outcome = "connection" THEN 0 ELSE opened + 1

\* the conn property: the handle in use when there is one; otherwise a new
\* Database and a new Connection on it. outcome tells which constructor, if
\* any, raises: "database", "connection" or "ok".
conn(outcome) ==
  IF _conn # 0 \/ outcome = "database" THEN UNCHANGED <<_db, _conn, opened>>
  ELSE /\ opened' = opened + 1
       /\ _db' = opened + 1
       /\ _conn' = IF outcome = "connection" THEN 0 ELSE opened + 1

\* a call whose use of self.conn finds or opens the connection
Connected == conn("ok")

\* a close that keeps the handles
close_KeepHandles == UNCHANGED <<_db, _conn, opened>>

close ==
  /\ _conn' = 0
  /\ _db' = 0
  /\ UNCHANGED opened

(***************************************************************************)
(* Program constants                                                       *)
(***************************************************************************)
RELATES_TO_THRESHOLD == 750000

SUPERSEDES_THRESHOLD == 900000

MAX_RELATIONS_PER_MEMORY == 5

UnknownType == <<117, 110, 107, 110, 111, 119, 110>>

StubType == <<115, 116, 117, 98>>

StubPreview == <<40, 115, 116, 117, 98, 32, 45, 32, 99, 114, 101, 97, 116, 101, 100, 32, 102, 111, 114, 32, 101, 100, 103, 101, 41>>

HighSimilarityReason == <<72, 105, 103, 104, 32, 115, 105, 109, 105, 108, 97, 114, 105, 116, 121, 32, 117, 112, 100, 97, 116, 101>>

UpdatedInformation == <<85, 112, 100, 97, 116, 101, 100, 32, 105, 110, 102, 111, 114, 109, 97, 116, 105, 111, 110>>

Unresolved == <<117, 110, 114, 101, 115, 111, 108, 118, 101, 100>>

(***************************************************************************)
(* Bounds and input sets                                                   *)
(***************************************************************************)
MaxEdges == 1

MaxCands == 1

MaxSyncCands == 7

BoundaryDelta == 30

MaxCallEdges == 2

MaxCallCands == 2

MaxDepth == 3

MaxOpens == 3

MaxChainEdges == 3

MaxText == 3

Hashes == {"H1", "H2"}

\* the (content, memory_type, created_at) arguments of a node creation: all
\* absent, or all given (39 is the single quote, 97 the letter a, 10 the
\* line feed, 110 the letter n)
Payloads ==
  {[content |-> <<>>, memory_type |-> <<>>, created_at |-> 0],
   [content |-> <<97, 39, 10>>, memory_type |-> <<110, 39>>, created_at |-> 1]}

\* the arguments of the node creation of a sync
SyncPayloads ==
  {[content |-> <<97, 39, 10>>, memory_type |-> <<110, 39>>, created_at |-> 1]}

\* the (strength, created_at) arguments of a direct edge creation
EdgeArgs == {[strength |-> 800000, created_at |-> 1]}

\* the readings of datetime.now()
Clock == {2}

\* the similarity scores of the candidates: one per edge kind for the
\* sequences of calls, and one below both thresholds for the single sync
Scores == {750000, 900000}

SyncScores == {749999, 750000, 900000}

\* the candidates of the syncs among the sequences of calls
Cands == {<<"H1", 750000>>} \cup ({"H2"} \X Scores)

(***************************************************************************)
(* Helpers                                                                 *)
(***************************************************************************)
Min(a, b) == IF a < b THEN a ELSE b

Max(a, b) == IF a > b THEN a ELSE b

\* the sequences over S of length at most n
SeqsUpTo(S, n) == UNION {[1..k -> S] : k \in 0..n}

\* the bag holding n copies of x
Copies(x, n) == IF n > 0 THEN [y \in {x} |-> n] ELSE EmptyBag

(***************************************************************************)
(* Text sanitizer                                                          *)
(***************************************************************************)
\* s[:max_len], with Python's meaning of a negative bound
Slice(s, max_len) ==
  IF max_len >= 0 THEN SubSeq(s, 1, Min(Len(s), max_len))
  ELSE SubSeq(s, 1, Max(Len(s) + max_len, 0))

\* a removal that forgets the backtick
RemoveQuotes_KeepBacktick(s) == SelectSeq(s, LAMBDA c : c \notin {39, 34, 92})

\* re.sub(r'[\'\"\\`]', '', s)
RemoveQuotes(s) == SelectSeq(s, LAMBDA c : c \notin {39, 34, 92, 96})

\* re.sub(r'[\x00-\x1f]', ' ', s)
BlankControls(s) == [i \in 1..Len(s) |-> IF s[i] \in 0..31 THEN 32 ELSE s[i]]

_sanitize_string(s, max_len) ==
  IF s = <<>> THEN <<>>
  ELSE BlankControls(RemoveQuotes(Slice(s, max_len)))

(***************************************************************************)
(* The store: Memory node table and the edge tables                        *)
(***************************************************************************)
\* MATCH (m:Memory {hash: h}): the number of rows
NodeCount(ns, h) ==
  BagCardinality([n \in {m \in DOMAIN ns : m.hash = h} |-> ns[n]])

HasNode(ns, h) == \E n \in DOMAIN ns : n.hash = h

\* a node table that accepts a second row with the same hash
PrimaryKeyViolation_Unkeyed(ns, h) == FALSE

\* the Memory table is keyed by hash: a CREATE of a present hash raises
PrimaryKeyViolation(ns, h) == HasNode(ns, h)

MemoryNode(h, preview, created, mem_type) ==
  [hash |-> h, content_preview |-> preview, created_at |-> created,
   memory_type |-> mem_type]

Edge(type, from, to, strength, text, at) ==
  [type |-> type, src |-> from, dst |-> to, strength |-> strength,
   text |-> text, at |-> at]

\* a CREATE that does not MATCH its endpoints first
MatchCreate_Unmatched(ns, es, e) == es (+) Copies(e, 1)

\* MATCH (a:Memory {hash: from}), (b:Memory {hash: to}) CREATE (a)-[e]->(b):
\* one edge per matched pair of rows, none when an endpoint is missing
MatchCreate(ns, es, e) ==
  es (+) Copies(e, NodeCount(ns, e.src) * NodeCount(ns, e.dst))

\* the state threaded through one public call: the tables and the number of
\* executions issued so far
St(ns, es, k) == [nodes |-> ns, edges |-> es, k |-> k]

(***************************************************************************)
(* Node repository                                                         *)
(***************************************************************************)
\* a try block without its except clause: the exception leaves the call
TryExcept_Uncaught(raised, body, sentinel) ==
  IF raised THEN [sentinel EXCEPT !.exc = TRUE] ELSE body

\* try: body / except Exception: log and return the sentinel. The field exc
\* of an outcome tells whether an exception left the call.
TryExcept(raised, body, sentinel) == IF raised THEN sentinel ELSE body

node_exists(st, content_hash, F) ==
  LET k == st.k + 1 IN
  TryExcept(k \in F,
            [nodes |-> st.nodes, edges |-> st.edges, k |-> k,
             ret |-> HasNode(st.nodes, content_hash), exc |-> FALSE],
            [nodes |-> st.nodes, edges |-> st.edges, k |-> k,
             ret |-> FALSE, exc |-> FALSE])

\* the try block of add_memory_node, entered after the existence check e
\* a creation that overwrites the record a hash already has
CreateMemoryNode_Upsert(e, content_hash, content, memory_type, created_at, now, F) ==
  LET preview == _sanitize_string(content, 200)
      mem_type == _sanitize_string(
                    IF memory_type = <<>> THEN UnknownType ELSE memory_type, 50)
      created == IF created_at = 0 THEN now ELSE created_at
      k == e.k + 1
      others == [n \in {x \in DOMAIN e.nodes : x.hash # content_hash} |-> e.nodes[n]]
  IN TryExcept(k \in F,
               [nodes |-> others (+) SetToBag({MemoryNode(content_hash, preview,
                                                          created, mem_type)}),
                edges |-> e.edges, k |-> k, ret |-> TRUE, exc |-> FALSE],
               [e EXCEPT !.k = k, !.ret = FALSE])

CreateMemoryNode(e, content_hash, content, memory_type, created_at, now, F) ==
  LET preview == _sanitize_string(content, 200)
      mem_type == _sanitize_string(
                    IF memory_type = <<>> THEN UnknownType ELSE memory_type, 50)
      created == IF created_at = 0 THEN now ELSE created_at
      k == e.k + 1
  IN TryExcept(k \in F \/ PrimaryKeyViolation(e.nodes, content_hash),
               [nodes |-> e.nodes (+) SetToBag({MemoryNode(content_hash, preview,
                                                           created, mem_type)}),
                edges |-> e.edges, k |-> k, ret |-> TRUE, exc |-> FALSE],
               [e EXCEPT !.k = k, !.ret = FALSE])

\* an add_memory_node that reports an already present node as added
add_memory_node_TrueOnExisting(st, content_hash, content, memory_type, created_at, now, F) ==
  LET e == node_exists(st, content_hash, F) IN
  IF e.exc \/ e.ret THEN e
  ELSE CreateMemoryNode(e, content_hash, content, memory_type, created_at, now, F)

add_memory_node(st, content_hash, content, memory_type, created_at, now, F) ==
  LET e == node_exists(st, content_hash, F) IN
  IF e.exc THEN e
  ELSE IF e.ret THEN [e EXCEPT !.ret = FALSE]
  ELSE CreateMemoryNode(e, content_hash, content, memory_type, created_at, now, F)

\* the CREATE of the stub, issued after the probe with outcome e found no node
CreateStub(e, content_hash, now, F) ==
  LET k == e.k + 1 IN
  TryExcept(k \in F \/ PrimaryKeyViolation(e.nodes, content_hash),
            [nodes |-> e.nodes (+) SetToBag({MemoryNode(content_hash, StubPreview,
                                                        now, StubType)}),
             edges |-> e.edges, k |-> k, ret |-> TRUE, exc |-> FALSE],
            [e EXCEPT !.k = k, !.ret = FALSE])

ensure_node_exists(st, content_hash, now, F) ==
  LET e == node_exists(st, content_hash, F) IN
  IF e.exc \/ e.ret THEN e
  ELSE CreateStub(e, content_hash, now, F)

(***************************************************************************)
(* Edge operations                                                         *)
(***************************************************************************)
\* one execution of a MATCH ... CREATE edge query
\* an edge creation that replaces the edges the store holds
ExecuteEdge_Overwrite(st, e, F) ==
  LET k == st.k + 1 IN
  TryExcept(k \in F,
            [nodes |-> st.nodes, edges |-> MatchCreate(st.nodes, EmptyBag, e),
             k |-> k, ret |-> TRUE, exc |-> FALSE],
            [nodes |-> st.nodes, edges |-> st.edges, k |-> k, ret |-> FALSE,
             exc |-> FALSE])

ExecuteEdge(st, e, F) ==
  LET k == st.k + 1 IN
  TryExcept(k \in F,
            [nodes |-> st.nodes, edges |-> MatchCreate(st.nodes, st.edges, e),
             k |-> k, ret |-> TRUE, exc |-> FALSE],
            [nodes |-> st.nodes, edges |-> st.edges, k |-> k, ret |-> FALSE,
             exc |-> FALSE])

add_relates_to(st, from_hash, to_hash, strength, created_at, now, F) ==
  LET created == IF created_at = 0 THEN now ELSE created_at IN
  ExecuteEdge(st, Edge("RELATES_TO", from_hash, to_hash, strength, <<>>, created), F)

\* an add_supersedes whose edge points from the old memory to the new one
add_supersedes_Reversed(st, new_hash, old_hash, reason, created_at, now, F) ==
  LET created == IF created_at = 0 THEN now ELSE created_at
      reason_safe == _sanitize_string(reason, 100)
  IN ExecuteEdge(st, Edge("SUPERSEDES", old_hash, new_hash, 0, reason_safe, created), F)

add_supersedes(st, new_hash, old_hash, reason, created_at, now, F) ==
  LET created == IF created_at = 0 THEN now ELSE created_at
      reason_safe == _sanitize_string(reason, 100)
  IN ExecuteEdge(st, Edge("SUPERSEDES", new_hash, old_hash, 0, reason_safe, created), F)

add_contradicts(st, hash_a, hash_b, resolution, detected_at, now, F) ==
  LET detected == IF detected_at = 0 THEN now ELSE detected_at
      resolution_safe == _sanitize_string(resolution, 100)
  IN ExecuteEdge(st, Edge("CONTRADICTS", hash_a, hash_b, 0, resolution_safe, detected), F)

(***************************************************************************)
(* Edge classifier and sync orchestrator                                   *)
(***************************************************************************)
\* a classifier whose bands exclude their lower edge
classify_Exclusive(similarity) ==
  IF similarity > SUPERSEDES_THRESHOLD THEN "Supersedes"
  ELSE IF similarity > RELATES_TO_THRESHOLD THEN "RelatesTo"
  ELSE "None"

\* the if / elif of the candidate loop
classify(similarity) ==
  IF similarity >= SUPERSEDES_THRESHOLD THEN "Supersedes"
  ELSE IF similarity >= RELATES_TO_THRESHOLD THEN "RelatesTo"
  ELSE "None"

\* a loop over the whole candidate list
Retained_Unbounded(similar_memories) == similar_memories

\* similar_memories[:MAX_RELATIONS_PER_MEMORY]
Retained(similar_memories) ==
  SubSeq(similar_memories, 1, Min(Len(similar_memories), MAX_RELATIONS_PER_MEMORY))

\* a loop that never skips a candidate
SelfReference_Never(related_hash, content_hash) == FALSE

\* if related_hash == content_hash: continue
SelfReference(related_hash, content_hash) == related_hash = content_hash

\* the loop state after a call with outcome r: the tables, the execution
\* count, whether an exception is on its way out, and the two result lists
Carry(r, rel, sup) ==
  [nodes |-> r.nodes, edges |-> r.edges, k |-> r.k, exc |-> r.exc,
   relates_to |-> rel, supersedes |-> sup]

\* an if / elif that puts the target at the front of its result list
ClassifyAndLink_Prepend(acc, en, related_hash, similarity, content_hash, now, F) ==
  LET kind == classify(similarity)
      sup == add_supersedes(en, content_hash, related_hash, HighSimilarityReason, 0, now, F)
      rel == add_relates_to(en, content_hash, related_hash, similarity, 0, now, F)
  IN IF kind = "Supersedes"
     THEN Carry(sup, acc.relates_to,
                IF sup.ret THEN <<related_hash>> \o acc.supersedes
                ELSE acc.supersedes)
     ELSE IF kind = "RelatesTo"
     THEN Carry(rel,
                IF rel.ret THEN <<related_hash>> \o acc.relates_to
                ELSE acc.relates_to,
                acc.supersedes)
     ELSE Carry(en, acc.relates_to, acc.supersedes)

\* the if / elif of the loop body, run on the outcome en of the stub call:
\* from 0.90 on add_supersedes, from 0.75 on add_relates_to, below that no
\* call; the target joins the result list when the call returns true
ClassifyAndLink(acc, en, related_hash, similarity, content_hash, now, F) ==
  LET kind == classify(similarity)
      sup == add_supersedes(en, content_hash, related_hash, HighSimilarityReason, 0, now, F)
      rel == add_relates_to(en, content_hash, related_hash, similarity, 0, now, F)
  IN IF kind = "Supersedes"
     THEN Carry(sup, acc.relates_to,
                IF sup.ret THEN Append(acc.supersedes, related_hash)
                ELSE acc.supersedes)
     ELSE IF kind = "RelatesTo"
     THEN Carry(rel,
                IF rel.ret THEN Append(acc.relates_to, related_hash)
                ELSE acc.relates_to,
                acc.supersedes)
     ELSE Carry(en, acc.relates_to, acc.supersedes)

\* a loop body that creates the edge first and the stub after it
ProcessCandidate_EdgeFirst(acc, related_hash, similarity, content_hash, now, F) ==
  LET st == St(acc.nodes, acc.edges, acc.k)
      kind == classify(similarity)
      sup == add_supersedes(st, content_hash, related_hash, HighSimilarityReason, 0, now, F)
      rel == add_relates_to(st, content_hash, related_hash, similarity, 0, now, F)
      made == IF kind = "Supersedes" THEN sup
              ELSE IF kind = "RelatesTo" THEN rel
              ELSE [st EXCEPT !.k = st.k] @@ [ret |-> FALSE, exc |-> FALSE]
      en == ensure_node_exists(St(made.nodes, made.edges, made.k), related_hash, now, F)
  IN Carry(en,
           IF kind = "RelatesTo" /\ made.ret THEN Append(acc.relates_to, related_hash)
           ELSE acc.relates_to,
           IF kind = "Supersedes" /\ made.ret THEN Append(acc.supersedes, related_hash)
           ELSE acc.supersedes)

\* the body of the for loop for a candidate that is not the new hash: the
\* stub, whose outcome the loop ignores, then the classification and the edge
ProcessCandidate(acc, related_hash, similarity, content_hash, now, F) ==
  LET en == ensure_node_exists(St(acc.nodes, acc.edges, acc.k), related_hash, now, F)
  IN IF en.exc THEN Carry(en, acc.relates_to, acc.supersedes)
     ELSE ClassifyAndLink(acc, en, related_hash, similarity, content_hash, now, F)

\* the for loop, from candidate i of the slice on; acc carries the tables,
\* the execution count and the two result lists
RECURSIVE ProcessCandidates(_, _, _, _, _, _)
ProcessCandidates(acc, cands, i, content_hash, now, F) ==
  IF i > Len(cands) \/ acc.exc THEN acc
  ELSE
    IF SelfReference(cands[i][1], content_hash)
    THEN ProcessCandidates(acc, cands, i + 1, content_hash, now, F)
    ELSE ProcessCandidates(ProcessCandidate(acc, cands[i][1], cands[i][2],
                                            content_hash, now, F),
                           cands, i + 1, content_hash, now, F)

\* the result returned when add_memory_node gave False
EmptyResult(a) ==
  [nodes |-> a.nodes, edges |-> a.edges, k |-> a.k, exc |-> a.exc,
   node_created |-> FALSE,
   relates_to |-> <<>>, supersedes |-> <<>>, contradicts |-> <<>>]

\* the loop over the slice cands and the result it fills
RunCandidates(a, content_hash, cands, now, F) ==
  LET r == ProcessCandidates(Carry(a, <<>>, <<>>), cands, 1, content_hash, now, F)
  IN [nodes |-> r.nodes, edges |-> r.edges, k |-> r.k, exc |-> r.exc,
      node_created |-> TRUE,
      relates_to |-> r.relates_to, supersedes |-> r.supersedes,
      contradicts |-> <<>>]

\* a sync that goes on to the candidates although the node was not created
sync_with_provenance_NoShortCircuit(st, content_hash, content, memory_type, created_at, similar_memories, now, F) ==
  LET a == add_memory_node(st, content_hash, content, memory_type, created_at, now, F) IN
  [RunCandidates(a, content_hash, Retained(similar_memories), now, F)
     EXCEPT !.node_created = a.ret]

\* a sync that drops the self-candidates before it takes the slice
sync_with_provenance_SkipThenSlice(st, content_hash, content, memory_type, created_at, similar_memories, now, F) ==
  LET a == add_memory_node(st, content_hash, content, memory_type, created_at, now, F) IN
  IF ~a.ret THEN EmptyResult(a)
  ELSE RunCandidates(a, content_hash,
                     Retained(SelectSeq(similar_memories,
                                        LAMBDA c : c[1] # content_hash)),
                     now, F)

sync_with_provenance(st, content_hash, content, memory_type, created_at, similar_memories, now, F) ==
  LET a == add_memory_node(st, content_hash, content, memory_type, created_at, now, F) IN
  IF ~a.ret THEN EmptyResult(a)
  ELSE RunCandidates(a, content_hash, Retained(similar_memories), now, F)

(***************************************************************************)
(* get_provenance_chain and get_stats                                      *)
(***************************************************************************)
\* a walker that follows every relationship table
ChainTypes_AllEdges == {"SUPERSEDES", "RELATES_TO", "CONTRADICTS"}

\* the relationship tables of the pattern [r:SUPERSEDES|RELATES_TO*1..depth]
ChainTypes == {"SUPERSEDES", "RELATES_TO"}

\* the paths of exactly n hops that leave h: each a sequence of edges of the
\* walked tables, every edge starting where the one before it ends
RECURSIVE Walks(_, _, _)
Walks(es, h, n) ==
  LET walked == {d \in DOMAIN es : d.type \in ChainTypes} IN
  IF n <= 1 THEN {<<e>> : e \in {d \in walked : d.src = h}}
  ELSE {x \in {Append(w, e) : w \in Walks(es, h, n - 1), e \in walked} :
          x[n].src = x[n - 1].dst}

\* how many times the store matches the path w: once per copy of each edge
RECURSIVE Matches(_, _)
Matches(es, w) == IF w = <<>> THEN 1 ELSE es[Head(w)] * Matches(es, Tail(w))

\* x repeated n times
Repeat(x, n) == [i \in 1..n |-> x]

\* the content_preview of the node with hash h
PreviewOf(ns, h) == (CHOOSE n \in DOMAIN ns : n.hash = h).content_preview

\* the dict built from one row: related.hash, related.content_preview,
\* type(r) (the labels along the path) and length(path)
ChainRow(ns, w) ==
  [hash |-> w[Len(w)].dst,
   preview |-> PreviewOf(ns, w[Len(w)].dst),
   relationship |-> [i \in 1..Len(w) |-> w[i].type],
   depth |-> Len(w)]

\* the rows of a set of paths of one length, listed path by path
RECURSIVE RowsOf(_, _, _)
RowsOf(ns, es, ws) ==
  IF ws = {} THEN <<>>
  ELSE LET w == CHOOSE x \in ws : TRUE
       IN Repeat(ChainRow(ns, w), Matches(es, w) * NodeCount(ns, w[1].src))
            \o RowsOf(ns, es, ws \ {w})

\* the orders in which the store can return the rows q: ORDER BY length(path)
\* says nothing about rows of equal length
RECURSIVE Orders(_)
Orders(q) ==
  IF q = <<>> THEN {<<>>}
  ELSE LET firsts == {i \in 1..Len(q) : \A j \in 1..(i - 1) : q[j] # q[i]}
           Without(i) == [j \in 1..(Len(q) - 1) |-> IF j < i THEN q[j] ELSE q[j + 1]]
       IN UNION {{<<q[i]>> \o rest : rest \in Orders(Without(i))} : i \in firsts}

\* the row sequences the query can return: by ascending length(path), the
\* rows of one length in any order
RECURSIVE ChainRows(_, _, _, _)
ChainRows(ns, es, h, depth) ==
  IF depth <= 0 THEN {<<>>}
  ELSE {shorter \o level :
          shorter \in ChainRows(ns, es, h, depth - 1),
          level \in Orders(RowsOf(ns, es, Walks(es, h, depth)))}

\* the outcomes of the call, one per order in which the rows can arrive
get_provenance_chain(st, content_hash, depth, F) ==
  LET k == st.k + 1 IN
  {TryExcept(k \in F,
             [nodes |-> st.nodes, edges |-> st.edges, k |-> k, exc |-> FALSE,
              ret |-> rows],
             [nodes |-> st.nodes, edges |-> st.edges, k |-> k, exc |-> FALSE,
              ret |-> <<>>]) :
     rows \in ChainRows(st.nodes, st.edges, content_hash, depth)}

\* the relationship tables get_stats counts, in the order it queries them
EDGE_TYPES == <<"RELATES_TO", "SUPERSEDES", "CONTRADICTS", "CAUSED_BY", "DERIVED_FROM">>

\* MATCH ()-[r:type]->() RETURN count(r)
CountEdges(es, type) ==
  BagCardinality([e \in {d \in DOMAIN es : d.type = type} |-> es[e]])

\* the sum of the values of the keys that start with edges_
RECURSIVE SumCounts(_)
SumCounts(counts) ==
  IF counts = <<>> THEN 0 ELSE Head(counts) + SumCounts(Tail(counts))

\* what the except clause returns
ErrorStats == [error |-> TRUE]

\* an except clause that hands back the counts together with the error marker
get_stats_PartialCounts(st, F) ==
  LET n == Len(EDGE_TYPES) + 1
      raising == {j \in 1..n : st.k + j \in F}
      counts == [i \in 1..Len(EDGE_TYPES) |-> CountEdges(st.edges, EDGE_TYPES[i])]
      full == [nodes |-> BagCardinality(st.nodes),
               edges_relates_to |-> counts[1], edges_supersedes |-> counts[2],
               edges_contradicts |-> counts[3], edges_caused_by |-> counts[4],
               edges_derived_from |-> counts[5], total_edges |-> SumCounts(counts)]
  IN IF raising # {}
     THEN [nodes |-> st.nodes, edges |-> st.edges, exc |-> FALSE,
           k |-> st.k + CHOOSE j \in raising : \A i \in raising : j <= i,
           ret |-> [error |-> TRUE, nodes |-> BagCardinality(st.nodes)]]
     ELSE [nodes |-> st.nodes, edges |-> st.edges, k |-> st.k + n, exc |-> FALSE,
           ret |-> full]

\* one count query for the nodes and one per relationship table; the first
\* query that raises ends the call in the except clause
get_stats(st, F) ==
  LET n == Len(EDGE_TYPES) + 1
      raising == {j \in 1..n : st.k + j \in F}
      counts == [i \in 1..Len(EDGE_TYPES) |-> CountEdges(st.edges, EDGE_TYPES[i])]
  IN TryExcept(raising # {},
               [nodes |-> st.nodes, edges |-> st.edges, k |-> st.k + n, exc |-> FALSE,
                ret |-> [nodes |-> BagCardinality(st.nodes),
                         edges_relates_to |-> counts[1],
                         edges_supersedes |-> counts[2],
                         edges_contradicts |-> counts[3],
                         edges_caused_by |-> counts[4],
                         edges_derived_from |-> counts[5],
                         total_edges |-> SumCounts(counts)]],
               [nodes |-> st.nodes, edges |-> st.edges, exc |-> FALSE,
                k |-> st.k + CHOOSE j \in raising : \A i \in raising : j <= i,
                ret |-> ErrorStats])

(***************************************************************************)
(* The state machine of one GraphSync instance used by a single caller     *)
(***************************************************************************)
\* what the last public call was and what it returned
Last(op, h, F, k, ret, exc, rel, sup, con) ==
  [op |-> op, hash |-> h, failed |-> (F \cap (1..k)) # {},
   ret |-> ret, exc |-> exc, relates_to |-> rel, supersedes |-> sup, contradicts |-> con]

\* which of the n executions of a call raise: none, a single one (a query
\* that fails), or all from one on (the store lost or locked)
Failures(n) == {{}} \cup {{i} : i \in 1..n} \cup {i..n : i \in 1..n}

\* the same for the many executions of a sync: none, a single one, or all
SyncFailures(n) == {{}} \cup {{i} : i \in 1..n} \cup {1..n}

\* the most executions a sync of the list cands can issue: two for the node,
\* and for every candidate of the slice that is not the new hash two for the
\* stub and, when its score reaches 0.75, one for the edge
SyncExecutions(h, cands) ==
  LET slice == Retained(cands)
      others == {i \in 1..Len(slice) : slice[i][1] # h}
  IN 2 + 2 * Cardinality(others)
       + Cardinality({i \in others : classify(slice[i][2]) # "None"})

Init ==
  /\ nodes = EmptyBag
  /\ edges = EmptyBag
  /\ last = Last("init", "", {}, 0, FALSE, FALSE, <<>>, <<>>, <<>>)
  /\ req = <<>>
  /\ pc = "run"
  /\ Closed
  /\ opened = 0
  /\ holder = 0

NodeExists ==
  \E h \in Hashes, F \in Failures(1) :
    LET r == node_exists(St(nodes, edges, 0), h, F) IN
    /\ last' = Last("node_exists", h, F, r.k, r.ret, r.exc, <<>>, <<>>, <<>>)
    /\ UNCHANGED <<nodes, edges, req, pc>>
    /\ Connected
    /\ UNCHANGED holder

AddMemoryNode ==
  \E h \in Hashes, p \in Payloads, now \in Clock, F \in Failures(2) :
    LET r == add_memory_node(St(nodes, edges, 0), h, p.content, p.memory_type,
                             p.created_at, now, F) IN
    /\ nodes' = r.nodes
    /\ edges' = r.edges
    /\ last' = Last("add_memory_node", h, F, r.k, r.ret, r.exc, <<>>, <<>>, <<>>)
    /\ UNCHANGED <<req, pc>>
    /\ Connected
    /\ UNCHANGED holder

EnsureNodeExists ==
  \E h \in Hashes, now \in Clock, F \in Failures(2) :
    LET r == ensure_node_exists(St(nodes, edges, 0), h, now, F) IN
    /\ nodes' = r.nodes
    /\ edges' = r.edges
    /\ last' = Last("ensure_node_exists", h, F, r.k, r.ret, r.exc, <<>>, <<>>, <<>>)
    /\ UNCHANGED <<req, pc>>
    /\ Connected
    /\ UNCHANGED holder

AddRelatesTo ==
  \E a \in Hashes, b \in Hashes, x \in EdgeArgs, now \in Clock, F \in Failures(1) :
    LET r == add_relates_to(St(nodes, edges, 0), a, b, x.strength, x.created_at, now, F) IN
    /\ BagCardinality(r.edges) <= MaxEdges
    /\ nodes' = r.nodes
    /\ edges' = r.edges
    /\ last' = Last("add_relates_to", a, F, r.k, r.ret, r.exc, <<>>, <<>>, <<>>)
    /\ UNCHANGED <<req, pc>>
    /\ Connected
    /\ UNCHANGED holder

AddSupersedes ==
  \E a \in Hashes, b \in Hashes, x \in EdgeArgs, now \in Clock, F \in Failures(1) :
    LET r == add_supersedes(St(nodes, edges, 0), a, b, UpdatedInformation,
                            x.created_at, now, F) IN
    /\ BagCardinality(r.edges) <= MaxEdges
    /\ nodes' = r.nodes
    /\ edges' = r.edges
    /\ last' = Last("add_supersedes", a, F, r.k, r.ret, r.exc, <<>>, <<>>, <<>>)
    /\ UNCHANGED <<req, pc>>
    /\ Connected
    /\ UNCHANGED holder

AddContradicts ==
  \E a \in Hashes, b \in Hashes, x \in EdgeArgs, now \in Clock, F \in Failures(1) :
    LET r == add_contradicts(St(nodes, edges, 0), a, b, Unresolved,
                             x.created_at, now, F) IN
    /\ BagCardinality(r.edges) <= MaxEdges
    /\ nodes' = r.nodes
    /\ edges' = r.edges
    /\ last' = Last("add_contradicts", a, F, r.k, r.ret, r.exc, <<>>, <<>>, <<>>)
    /\ UNCHANGED <<req, pc>>
    /\ Connected
    /\ UNCHANGED holder

SyncWithProvenance ==
  \E h \in Hashes, p \in SyncPayloads,
     cands \in SeqsUpTo(Cands, MaxCands), now \in Clock :
    \E F \in SyncFailures(SyncExecutions(h, cands)) :
      LET r == sync_with_provenance(St(nodes, edges, 0), h, p.content, p.memory_type,
                                    p.created_at, cands, now, F) IN
      /\ BagCardinality(r.edges) <= MaxEdges
      /\ nodes' = r.nodes
      /\ edges' = r.edges
      /\ last' = Last("sync_with_provenance", h, F, r.k, r.node_created, r.exc,
                      r.relates_to, r.supersedes, r.contradicts)
      /\ UNCHANGED <<req, pc>>
      /\ Connected
      /\ UNCHANGED holder

Next ==
  \/ NodeExists
  \/ AddMemoryNode
  \/ EnsureNodeExists
  \/ AddRelatesTo
  \/ AddSupersedes
  \/ AddContradicts
  \/ SyncWithProvenance

Spec == Init /\ [][Next]_vars

(***************************************************************************)
(* The edge classifier alone: Init draws a score, Classify applies the     *)
(* branch of the candidate loop to it                                      *)
(***************************************************************************)
ClassifyInputs ==
  {0, 1000000}
    \cup ((RELATES_TO_THRESHOLD - BoundaryDelta)..(RELATES_TO_THRESHOLD + BoundaryDelta))
    \cup ((SUPERSEDES_THRESHOLD - BoundaryDelta)..(SUPERSEDES_THRESHOLD + BoundaryDelta))

\* the store before the sync of H1 with the candidate H2: empty, or holding
\* H2 as a full record or as a stub, or holding H1 already
ClassifyStores ==
  {EmptyBag,
   SetToBag({MemoryNode("H2", <<97>>, 1, UnknownType)}),
   SetToBag({MemoryNode("H2", StubPreview, 1, StubType)}),
   SetToBag({MemoryNode("H1", <<97>>, 1, UnknownType)})}

\* a new object over the store; req is the similarity of the candidate
InitClassify ==
  /\ nodes \in ClassifyStores
  /\ edges = EmptyBag
  /\ last = [op |-> "init", ret |-> "None", relates_to |-> <<>>, supersedes |-> <<>>,
             k |-> 0, F |-> {}, calls |-> 0, failed |-> FALSE]
  /\ req \in ClassifyInputs
  /\ pc = "call"
  /\ Closed
  /\ opened = 0
  /\ holder = 0

\* sync_with_provenance of H1 with the one candidate (H2, req), up to the if
\* of the loop body: add_memory_node, which opens the connection, the return
\* of the empty result when it gives false, and ensure_node_exists for H2
ReachClassify ==
  /\ pc = "call"
  /\ \E p \in SyncPayloads, now \in Clock :
       \E F \in SyncFailures(SyncExecutions("H1", <<<<"H2", req>>>>)) :
         LET a == add_memory_node(St(nodes, edges, 0), "H1", p.content, p.memory_type,
                                  p.created_at, now, F)
             en == ensure_node_exists(St(a.nodes, a.edges, a.k), "H2", now, F)
             at == IF a.ret THEN en ELSE a
         IN /\ nodes' = at.nodes
            /\ edges' = at.edges
            /\ last' = [op |-> IF a.ret /\ ~en.exc THEN "reached" ELSE "returned",
                        ret |-> "None", relates_to |-> <<>>, supersedes |-> <<>>,
                        k |-> at.k, F |-> F, calls |-> 0, failed |-> FALSE]
            /\ pc' = IF a.ret /\ ~en.exc THEN "branch" ELSE "done"
  /\ Connected
  /\ UNCHANGED <<req, holder>>

\* the if / elif of the loop body for the candidate (H2, req): the branch
\* taken, the edge call it makes on the open connection, and the result lists
Classify ==
  /\ pc = "branch"
  /\ \E now \in Clock :
       LET en == [nodes |-> nodes, edges |-> edges, k |-> last.k, ret |-> TRUE, exc |-> FALSE]
           r == ClassifyAndLink(Carry(en, <<>>, <<>>), en, "H2", req, "H1", now, last.F)
       IN /\ nodes' = r.nodes
          /\ edges' = r.edges
          /\ last' = [op |-> "classify", ret |-> classify(req),
                      relates_to |-> r.relates_to, supersedes |-> r.supersedes,
                      k |-> r.k, F |-> last.F, calls |-> r.k - last.k,
                      failed |-> r.k > last.k /\ r.k \in last.F]
          /\ IF r.k > last.k THEN Connected ELSE UNCHANGED <<_db, _conn, opened>>
  /\ pc' = "done"
  /\ UNCHANGED <<req, holder>>

NextClassify ==
  \/ ReachClassify
  \/ Classify

SpecClassify == InitClassify /\ [][NextClassify]_vars

(***************************************************************************)
(* One sync call on long candidate lists, the store never failing: Init    *)
(* draws the graph and the arguments, Sync runs the call                   *)
(***************************************************************************)
SyncCandHashes == {"H1", "H2", "H3"}

\* the candidates of the slice: the new hash and H2 at every score, H3 at the
\* scores that give it an edge
HeadPairs == ({"H1", "H2"} \X SyncScores) \cup ({"H3"} \X Scores)

\* the candidates past the slice: an entry the loop would give an edge to if
\* it reached it
TailPairs == {<<"H3", 900000>>}

\* the candidate lists: every list that fits the slice, and every full slice
\* followed by up to MaxSyncCands - MAX_RELATIONS_PER_MEMORY more candidates
SyncLists ==
  SeqsUpTo(HeadPairs, MAX_RELATIONS_PER_MEMORY)
    \cup {head \o tail :
            head \in [1..MAX_RELATIONS_PER_MEMORY -> HeadPairs],
            tail \in SeqsUpTo(TailPairs, MaxSyncCands - MAX_RELATIONS_PER_MEMORY)}

\* the graph before the call: empty, or holding the full record of H2
SyncGraphs ==
  {EmptyBag,
   SetToBag({MemoryNode("H2", <<97>>, 1, UnknownType)})}

InitSync ==
  /\ nodes \in SyncGraphs
  /\ edges = EmptyBag
  /\ last = Last("init", "", {}, 0, FALSE, FALSE, <<>>, <<>>, <<>>)
  /\ req \in [content_hash : {"H1"}, payload : SyncPayloads, similar_memories : SyncLists]
  /\ pc = "call"
  /\ Closed
  /\ opened = 0
  /\ holder = 0

Sync ==
  /\ pc = "call"
  /\ \E now \in Clock :
       LET r == sync_with_provenance(St(nodes, edges, 0), req.content_hash,
                                     req.payload.content, req.payload.memory_type,
                                     req.payload.created_at, req.similar_memories,
                                     now, {})
       IN /\ nodes' = r.nodes
          /\ edges' = r.edges
          /\ last' = Last("sync_with_provenance", req.content_hash, {}, r.k,
                          r.node_created, r.exc, r.relates_to, r.supersedes,
                          r.contradicts)
  /\ pc' = "done"
  /\ UNCHANGED req
  /\ Connected
  /\ UNCHANGED holder

SpecSync == InitSync /\ [][Sync]_vars

(***************************************************************************)
(* One public call, with or without failing executions, on a graph that    *)
(* earlier calls have built                                                *)
(***************************************************************************)
CallHashes == {"H1", "H2", "H3"}

\* the records a hash can have before the call: none, a stub left by an
\* earlier sync, or a full record
NodeChoices(h) ==
  {EmptyBag,
   SetToBag({MemoryNode(h, StubPreview, 1, StubType)}),
   SetToBag({MemoryNode(h, <<97>>, 1, UnknownType)})}

CallNodeTables ==
  {a (+) b (+) c : a \in NodeChoices("H1"), b \in NodeChoices("H2"),
                   c \in {EmptyBag, SetToBag({MemoryNode("H3", <<97>>, 1, UnknownType)})}}

\* the edges earlier calls can have left
CallEdgePool ==
  {Edge("RELATES_TO", "H1", "H2", 800000, <<>>, 1),
   Edge("SUPERSEDES", "H1", "H2", 0, UpdatedInformation, 1),
   Edge("CONTRADICTS", "H1", "H2", 0, Unresolved, 1),
   Edge("SUPERSEDES", "H2", "H3", 0, HighSimilarityReason, 1)}

\* the bag of the elements of a sequence
RECURSIVE BagOfSeq(_)
BagOfSeq(q) == IF q = <<>> THEN EmptyBag ELSE SetToBag({Head(q)}) (+) BagOfSeq(Tail(q))

\* the edge tables of at most MaxCallEdges edges between nodes of ns
CallEdgeTables(ns) ==
  {BagOfSeq(q) :
     q \in SeqsUpTo({e \in CallEdgePool : HasNode(ns, e.src) /\ HasNode(ns, e.dst)},
                    MaxCallEdges)}

\* the candidates of a sync of H1
CallCands ==
  {<<"H2", 749999>>, <<"H2", 750000>>, <<"H2", 900000>>, <<"H3", 750000>>,
   <<"H1", 900000>>}

\* the arguments of the call, kept for the properties
Args(h, similar_memories, depth, F) ==
  [hash |-> h, similar_memories |-> similar_memories, depth |-> depth, F |-> F]

InitCall ==
  /\ nodes \in CallNodeTables
  /\ edges \in CallEdgeTables(nodes)
  /\ last = Last("init", "", {}, 0, FALSE, FALSE, <<>>, <<>>, <<>>)
  /\ req = Args("", <<>>, 0, {})
  /\ pc = "call"
  /\ Closed
  /\ opened = 0
  /\ holder = 0

\* the call returns: the tables it leaves and what the caller sees
Return(op, args, r, ret, rel, sup, con) ==
  /\ pc' = "done"
  /\ nodes' = r.nodes
  /\ edges' = r.edges
  /\ req' = args
  /\ Connected
  /\ UNCHANGED holder
  /\ last' = Last(op, args.hash, args.F, r.k, ret, r.exc, rel, sup, con)

CallNodeExists ==
  \E h \in CallHashes, F \in Failures(1) :
    LET r == node_exists(St(nodes, edges, 0), h, F) IN
    /\ pc = "call"
    /\ Return("node_exists", Args(h, <<>>, 0, F), r, r.ret, <<>>, <<>>, <<>>)

CallAddMemoryNode ==
  \E h \in CallHashes, p \in Payloads, now \in Clock, F \in Failures(2) :
    LET r == add_memory_node(St(nodes, edges, 0), h, p.content, p.memory_type,
                             p.created_at, now, F) IN
    /\ pc = "call"
    /\ Return("add_memory_node", Args(h, <<>>, 0, F), r, r.ret, <<>>, <<>>, <<>>)

CallEnsureNodeExists ==
  \E h \in CallHashes, now \in Clock, F \in Failures(2) :
    LET r == ensure_node_exists(St(nodes, edges, 0), h, now, F) IN
    /\ pc = "call"
    /\ Return("ensure_node_exists", Args(h, <<>>, 0, F), r, r.ret, <<>>, <<>>, <<>>)

CallAddRelatesTo ==
  \E a \in CallHashes, b \in CallHashes, x \in EdgeArgs, now \in Clock, F \in Failures(1) :
    LET r == add_relates_to(St(nodes, edges, 0), a, b, x.strength, x.created_at, now, F) IN
    /\ pc = "call"
    /\ Return("add_relates_to", Args(a, <<>>, 0, F), r, r.ret, <<>>, <<>>, <<>>)

CallAddSupersedes ==
  \E a \in CallHashes, b \in CallHashes, x \in EdgeArgs, now \in Clock, F \in Failures(1) :
    LET r == add_supersedes(St(nodes, edges, 0), a, b, UpdatedInformation,
                            x.created_at, now, F) IN
    /\ pc = "call"
    /\ Return("add_supersedes", Args(a, <<>>, 0, F), r, r.ret, <<>>, <<>>, <<>>)

CallAddContradicts ==
  \E a \in CallHashes, b \in CallHashes, x \in EdgeArgs, now \in Clock, F \in Failures(1) :
    LET r == add_contradicts(St(nodes, edges, 0), a, b, Unresolved,
                             x.created_at, now, F) IN
    /\ pc = "call"
    /\ Return("add_contradicts", Args(a, <<>>, 0, F), r, r.ret, <<>>, <<>>, <<>>)

CallSyncWithProvenance ==
  \E p \in SyncPayloads, cands \in SeqsUpTo(CallCands, MaxCallCands), now \in Clock :
    \E F \in SyncFailures(SyncExecutions("H1", cands)) :
      LET r == sync_with_provenance(St(nodes, edges, 0), "H1", p.content,
                                    p.memory_type, p.created_at, cands, now, F) IN
      /\ pc = "call"
      /\ Return("sync_with_provenance", Args("H1", cands, 0, F), r, r.node_created,
                r.relates_to, r.supersedes, r.contradicts)

CallGetProvenanceChain ==
  /\ pc = "call"
  /\ \E h \in CallHashes, depth \in 1..MaxDepth, F \in Failures(1) :
       \E r \in get_provenance_chain(St(nodes, edges, 0), h, depth, F) :
         Return("get_provenance_chain", Args(h, <<>>, depth, F), r, r.ret, <<>>, <<>>, <<>>)

CallGetStats ==
  \E F \in Failures(Len(EDGE_TYPES) + 1) :
    LET r == get_stats(St(nodes, edges, 0), F) IN
    /\ pc = "call"
    /\ Return("get_stats", Args("", <<>>, 0, F), r, r.ret, <<>>, <<>>, <<>>)

NextCall ==
  \/ CallNodeExists
  \/ CallAddMemoryNode
  \/ CallEnsureNodeExists
  \/ CallAddRelatesTo
  \/ CallAddSupersedes
  \/ CallAddContradicts
  \/ CallSyncWithProvenance
  \/ CallGetProvenanceChain
  \/ CallGetStats

SpecCall == InitCall /\ [][NextCall]_vars

(***************************************************************************)
(* The connection life cycle: calls that open the store implicitly,        *)
(* close(), and the with-block (__enter__ / __exit__)                      *)
(***************************************************************************)
\* what the constructors do when a call has to open the store
Outcomes == {"ok", "database", "connection"}

\* the executions of a one-query call that raise: its only one when self.conn
\* raises inside the try block, none otherwise
OpenFailure(outcome) == IF _conn = 0 /\ outcome # "ok" THEN {1} ELSE {}

\* what the step was given and the handle held before it
ConnArgs(outcome, raised) == [outcome |-> outcome, raised |-> raised, held |-> _conn]

InitConn ==
  /\ nodes = SetToBag({MemoryNode("H1", <<97>>, 1, UnknownType),
                       MemoryNode("H2", <<97>>, 1, UnknownType)})
  /\ edges = EmptyBag
  /\ last = Last("init", "", {}, 0, FALSE, FALSE, <<>>, <<>>, <<>>)
  /\ req = [outcome |-> "ok", raised |-> FALSE, held |-> 0]
  /\ pc = "run"
  /\ Closed
  /\ opened = 0
  /\ holder = 0

ConnNodeExists ==
  \E h \in Hashes, o \in Outcomes :
    LET F == OpenFailure(o)
        r == node_exists(St(nodes, edges, 0), h, F) IN
    /\ _conn = 0 => opened < MaxOpens
    /\ conn(o)
    /\ last' = Last("node_exists", h, F, r.k, r.ret, r.exc, <<>>, <<>>, <<>>)
    /\ req' = ConnArgs(o, FALSE)
    /\ UNCHANGED <<nodes, edges, pc, holder>>

ConnAddRelatesTo ==
  \E a \in Hashes, b \in Hashes, x \in EdgeArgs, now \in Clock, o \in Outcomes :
    LET F == OpenFailure(o)
        r == add_relates_to(St(nodes, edges, 0), a, b, x.strength, x.created_at, now, F) IN
    /\ _conn = 0 => opened < MaxOpens
    /\ BagCardinality(r.edges) <= MaxEdges
    /\ conn(o)
    /\ nodes' = r.nodes
    /\ edges' = r.edges
    /\ last' = Last("add_relates_to", a, F, r.k, r.ret, r.exc, <<>>, <<>>, <<>>)
    /\ req' = ConnArgs(o, FALSE)
    /\ UNCHANGED <<pc, holder>>

ConnClose ==
  /\ close
  /\ last' = Last("close", "", {}, 0, FALSE, FALSE, <<>>, <<>>, <<>>)
  /\ req' = ConnArgs("ok", FALSE)
  /\ UNCHANGED <<nodes, edges, pc, holder>>

\* with GraphSync(...) as g: __enter__ returns self
ConnEnter ==
  /\ pc = "run"
  /\ pc' = "with"
  /\ last' = Last("__enter__", "", {}, 0, TRUE, FALSE, <<>>, <<>>, <<>>)
  /\ req' = ConnArgs("ok", FALSE)
  /\ UNCHANGED <<nodes, edges, _db, _conn, opened, holder>>

\* an __exit__ that closes only when the body returned normally
__exit___OnlyOnReturn(raised) ==
  /\ IF raised THEN UNCHANGED <<_db, _conn, opened>> ELSE close
  /\ last' = Last("__exit__", "", {}, 0, FALSE, raised /\ ~FALSE, <<>>, <<>>, <<>>)

\* __exit__ closes and returns False: ret is the value returned, and an
\* exception of the body leaves the with statement when that value is false
__exit__(raised) ==
  /\ close
  /\ last' = Last("__exit__", "", {}, 0, FALSE, raised /\ ~FALSE, <<>>, <<>>, <<>>)

\* the with-block ends, by normal return or by an exception of its body
ConnExit ==
  \E raised \in BOOLEAN :
    /\ pc = "with"
    /\ pc' = "run"
    /\ __exit__(raised)
    /\ req' = ConnArgs("ok", raised)
    /\ UNCHANGED <<nodes, edges, holder>>

NextConn ==
  \/ ConnNodeExists
  \/ ConnAddRelatesTo
  \/ ConnClose
  \/ ConnEnter
  \/ ConnExit

SpecConn == InitConn /\ [][NextConn]_vars

(***************************************************************************)
(* get_provenance_chain on graphs of four memories                         *)
(***************************************************************************)
ChainHashes == {"H1", "H2", "H3", "H4"}

\* the four full records; the preview of a memory names it (49 is the digit 1)
ChainNodes ==
  SetToBag({MemoryNode("H1", <<49>>, 1, UnknownType),
            MemoryNode("H2", <<50>>, 1, UnknownType),
            MemoryNode("H3", <<51>>, 1, UnknownType),
            MemoryNode("H4", <<52>>, 1, UnknownType)})

\* the pairs (newer, older): H1 is the newest memory
Forward == {<<"H1", "H2">>, <<"H1", "H3">>, <<"H1", "H4">>,
            <<"H2", "H3">>, <<"H2", "H4">>, <<"H3", "H4">>}

\* the edges syncs and direct calls can have left between them
ChainEdgePool ==
  {Edge("SUPERSEDES", p[1], p[2], 0, HighSimilarityReason, 1) : p \in Forward}
    \cup {Edge("RELATES_TO", p[1], p[2], 800000, <<>>, 1) : p \in Forward}
    \cup {Edge("CONTRADICTS", p[1], p[2], 0, Unresolved, 1) : p \in Forward}

InitChain ==
  /\ nodes = ChainNodes
  /\ edges \in {BagOfSeq(q) : q \in SeqsUpTo(ChainEdgePool, MaxChainEdges)}
  /\ last = Last("init", "", {}, 0, FALSE, FALSE, <<>>, <<>>, <<>>)
  /\ req = Args("", <<>>, 0, {})
  /\ pc = "call"
  /\ Closed
  /\ opened = 0
  /\ holder = 0

GetProvenanceChain ==
  /\ pc = "call"
  /\ \E h \in ChainHashes, depth \in 1..MaxDepth, F \in Failures(1) :
       \E r \in get_provenance_chain(St(nodes, edges, 0), h, depth, F) :
         Return("get_provenance_chain", Args(h, <<>>, depth, F), r, r.ret, <<>>, <<>>, <<>>)

SpecChain == InitChain /\ [][GetProvenanceChain]_vars

(***************************************************************************)
(* _sanitize_string on short texts                                         *)
(***************************************************************************)
\* the characters of the texts: the four the sanitizer removes (' " ` \),
\* the line feed, DEL, and the letter a
Chars == {39, 34, 96, 92, 10, 127, 97}

\* the texts, <<>> standing for "" and for None, and the max_len arguments
Texts == SeqsUpTo(Chars, MaxText)

Lengths == (0 - 1)..(MaxText + 1)

InitSanitize ==
  /\ nodes = EmptyBag
  /\ edges = EmptyBag
  /\ last = [op |-> "init", ret |-> <<>>, first |-> <<>>]
  /\ req \in [s : Texts, max_len : Lengths]
  /\ pc = "call"
  /\ Closed
  /\ opened = 0
  /\ holder = 0

\* _sanitize_string(s, max_len)
Sanitize ==
  /\ pc = "call"
  /\ pc' = "done"
  /\ last' = [op |-> "_sanitize_string", ret |-> _sanitize_string(req.s, req.max_len),
              first |-> <<>>]
  /\ UNCHANGED <<nodes, edges, req, _db, _conn, opened, holder>>

\* _sanitize_string applied to what it returned, with the same max_len
SanitizeAgain ==
  /\ pc = "done"
  /\ pc' = "again"
  /\ last' = [op |-> "_sanitize_string", ret |-> _sanitize_string(last.ret, req.max_len),
              first |-> last.ret]
  /\ UNCHANGED <<nodes, edges, req, _db, _conn, opened, holder>>

NextSanitize ==
  \/ Sanitize
  \/ SanitizeAgain

SpecSanitize == InitSanitize /\ [][NextSanitize]_vars

(***************************************************************************)
(* Two callers of add_memory_node / ensure_node_exists on one store, their *)
(* probe and create queries interleaved, with or without a critical        *)
(* section around each operation                                           *)
(***************************************************************************)
Callers == {1, 2}

RaceOps == {"add_memory_node", "ensure_node_exists"}

\* entering the section without waiting for the caller inside it
Acquire_NoWait(c) == holder' = c

\* entering the critical section of the store: wait until no caller is in it
Acquire(c) == holder = 0 /\ holder' = c

\* leaving the critical section
Release(c) == holder' = 0

\* the graph before the calls: empty, or with the full record of H2; the
\* object is new, and no caller has made a handle yet
InitRace ==
  /\ nodes \in SyncGraphs
  /\ edges = EmptyBag
  /\ req \in [exclusive : BOOLEAN, calls : [Callers -> [op : RaceOps, hash : Hashes]]]
  /\ last = [c \in Callers |-> [found |-> FALSE, issued |-> FALSE, ret |-> FALSE, made |-> 0]]
  /\ pc = [c \in Callers |-> "idle"]
  /\ Closed
  /\ opened = 0
  /\ holder = 0

\* the positions of a caller inside its operation
InCall == {"conn", "database", "set_db", "connection", "set_conn", "probe", "create"}

\* the caller starts its operation, inside the critical section when the
\* callers use one
Begin(c) ==
  /\ pc[c] = "idle"
  /\ IF req.exclusive THEN Acquire(c) ELSE UNCHANGED holder
  /\ pc' = [pc EXCEPT ![c] = "conn"]
  /\ UNCHANGED <<nodes, edges, last, req, _db, _conn, opened>>

\* the conn property of the first query, step by step; nothing in it keeps
\* another caller out. The test "self._conn is None"
TestConn(c) ==
  /\ pc[c] = "conn"
  /\ pc' = [pc EXCEPT ![c] = IF _conn = 0 THEN "database" ELSE "probe"]
  /\ UNCHANGED <<nodes, edges, last, req, _db, _conn, opened, holder>>

\* kuzu.Database(self.db_path): one more Database object, held by the caller
MakeDatabase(c) ==
  /\ pc[c] = "database"
  /\ opened' = opened + 1
  /\ last' = [last EXCEPT ![c].made = opened + 1]
  /\ pc' = [pc EXCEPT ![c] = "set_db"]
  /\ UNCHANGED <<nodes, edges, req, _db, _conn, holder>>

\* self._db = the Database the caller has made
SetDb(c) ==
  /\ pc[c] = "set_db"
  /\ _db' = last[c].made
  /\ pc' = [pc EXCEPT ![c] = "connection"]
  /\ UNCHANGED <<nodes, edges, last, req, _conn, opened, holder>>

\* kuzu.Connection(self._db): a Connection on the Database that self._db
\* holds now, which another caller can have replaced
MakeConnection(c) ==
  /\ pc[c] = "connection"
  /\ last' = [last EXCEPT ![c].made = _db]
  /\ pc' = [pc EXCEPT ![c] = "set_conn"]
  /\ UNCHANGED <<nodes, edges, req, _db, _conn, opened, holder>>

\* self._conn = the Connection the caller has made
SetConn(c) ==
  /\ pc[c] = "set_conn"
  /\ _conn' = last[c].made
  /\ pc' = [pc EXCEPT ![c] = "probe"]
  /\ UNCHANGED <<nodes, edges, last, req, _db, opened, holder>>

\* the existence check: node_exists on the connection the property returned;
\* when it finds the node the operation returns (False from add_memory_node,
\* True from ensure_node_exists)
Probe(c) ==
  /\ pc[c] = "probe"
  /\ LET e == node_exists(St(nodes, edges, 0), req.calls[c].hash, {}) IN
     /\ last' = [last EXCEPT ![c] = [found |-> e.ret, issued |-> FALSE,
                                     ret |-> e.ret /\ req.calls[c].op = "ensure_node_exists",
                                     made |-> last[c].made]]
     /\ pc' = [pc EXCEPT ![c] = IF e.ret THEN "done" ELSE "create"]
     /\ IF e.ret /\ req.exclusive THEN Release(c) ELSE UNCHANGED holder
  /\ Connected
  /\ UNCHANGED <<nodes, edges, req>>

\* the CREATE query, issued on the tables as they are now
Create(c) ==
  /\ pc[c] = "create"
  /\ \E p \in SyncPayloads, now \in Clock :
       LET e == [nodes |-> nodes, edges |-> edges, k |-> 1, ret |-> FALSE, exc |-> FALSE]
           r == IF req.calls[c].op = "add_memory_node"
                THEN CreateMemoryNode(e, req.calls[c].hash, p.content, p.memory_type,
                                      p.created_at, now, {})
                ELSE CreateStub(e, req.calls[c].hash, now, {})
       IN /\ nodes' = r.nodes
          /\ edges' = r.edges
          /\ last' = [last EXCEPT ![c] = [found |-> FALSE, issued |-> TRUE, ret |-> r.ret,
                                          made |-> last[c].made]]
  /\ pc' = [pc EXCEPT ![c] = "done"]
  /\ IF req.exclusive THEN Release(c) ELSE UNCHANGED holder
  /\ Connected
  /\ UNCHANGED req

NextRace ==
  \/ \E c \in Callers : Begin(c)
  \/ \E c \in Callers : TestConn(c)
  \/ \E c \in Callers : MakeDatabase(c)
  \/ \E c \in Callers : SetDb(c)
  \/ \E c \in Callers : MakeConnection(c)
  \/ \E c \in Callers : SetConn(c)
  \/ \E c \in Callers : Probe(c)
  \/ \E c \in Callers : Create(c)

SpecRace == InitRace /\ [][NextRace]_vars

(***************************************************************************)
(* Properties                                                              *)
(***************************************************************************)
\* the hashes of a list of (hash, score) pairs, in order
HashesOf(cands) == [i \in 1..Len(cands) |-> cands[i][1]]

\* the number of entries of the list l that equal x
Occurrences(l, x) == Cardinality({i \in 1..Len(l) : l[i] = x})

\* the number of edges of the bag es of the given type from a to b
EdgeCount(es, type, a, b) ==
  BagCardinality([e \in {d \in DOMAIN es : d.type = type /\ d.src = a /\ d.dst = b}
                    |-> es[e]])

\* the first five entries of the raw list
FirstFive(cands) == SubSeq(cands, 1, IF Len(cands) < 5 THEN Len(cands) ELSE 5)

\* the entries among the first five of the raw list that are not the new hash
KeptOfFirstFive(cands, h) == SelectSeq(FirstFive(cands), LAMBDA c : c[1] # h)

\* the first five of the entries that are not the new hash
FirstFiveOfKept(cands, h) == FirstFive(SelectSeq(cands, LAMBDA c : c[1] # h))

ScoredSupersedes(cands) == SelectSeq(cands, LAMBDA c : c[2] >= 900000)

ScoredRelatesTo(cands) == SelectSeq(cands, LAMBDA c : c[2] >= 750000 /\ c[2] < 900000)

\* C1: with no store failure, add_memory_node of an absent hash returns true
\* and leaves exactly one node of that hash, and an add_memory_node of the
\* same hash right after a successful one returns false, changes neither
\* table and leaves exactly one node of that hash.
C1_IdempotentCreation ==
  [][(last'.op = "add_memory_node" /\ ~last'.failed) =>
       /\ ~HasNode(nodes, last'.hash) =>
            last'.ret = TRUE /\ NodeCount(nodes', last'.hash) = 1
       /\ (last.op = "add_memory_node" /\ last.ret = TRUE /\ last.hash = last'.hash) =>
            /\ last'.ret = FALSE
            /\ nodes' = nodes
            /\ edges' = edges
            /\ NodeCount(nodes', last'.hash) = 1]_vars

\* an add_memory_node that found its hash present and returned false
C1_Witness ==
  /\ last.op = "add_memory_node"
  /\ ~last.failed
  /\ last.ret = FALSE
  /\ NodeCount(nodes, last.hash) = 1

\* C2: in every reachable state, store failures included, the node table
\* holds at most one node per content hash.
C2_NodeUniqueness == \A h \in Hashes : NodeCount(nodes, h) <= 1

\* a creation whose existence check raised although the node was present
C2_Witness ==
  /\ last.op \in {"add_memory_node", "ensure_node_exists", "sync_with_provenance"}
  /\ last.failed
  /\ last.ret = FALSE
  /\ HasNode(nodes, last.hash)

\* C3: a sync_with_provenance of a hash that is already a node, full record
\* or stub, returns node_created false with the three lists empty and leaves
\* the node table and the edge tables as they were.
C3_DuplicateSyncShortCircuit ==
  [][(last'.op = "sync_with_provenance" /\ HasNode(nodes, last'.hash)) =>
       /\ last'.ret = FALSE
       /\ last'.relates_to = <<>>
       /\ last'.supersedes = <<>>
       /\ last'.contradicts = <<>>
       /\ nodes' = nodes
       /\ edges' = edges]_vars

\* a sync of a hash that is present as a stub
C3_Witness ==
  /\ last.op = "sync_with_provenance"
  /\ ~last.failed
  /\ last.ret = FALSE
  /\ \E n \in DOMAIN nodes : n.hash = last.hash /\ n.memory_type = StubType

\* C4: the classification is Supersedes from 0.90 on, RelatesTo from 0.75 up
\* to but excluding 0.90, None below 0.75; 0.90 gives Supersedes, 0.899999
\* and 0.75 give RelatesTo, 0.749999 gives None; the target enters the
\* result list of its class when its one edge call does not fail, the edge
\* is created when the target is stored, and no edge call is made for None.
C4_Classification ==
  pc = "done" /\ last.op = "classify" =>
    /\ req >= 900000 => last.ret = "Supersedes"
    /\ (req >= 750000 /\ req < 900000) => last.ret = "RelatesTo"
    /\ req < 750000 => last.ret = "None"
    /\ req = 900000 => last.ret = "Supersedes"
    /\ req = 899999 => last.ret = "RelatesTo"
    /\ req = 750000 => last.ret = "RelatesTo"
    /\ req = 749999 => last.ret = "None"
    /\ last.ret = "None" <=> last.calls = 0
    /\ last.ret # "None" => last.calls = 1
    /\ ~last.failed =>
         /\ last.ret = "Supersedes" <=> last.supersedes = <<"H2">>
         /\ last.ret = "RelatesTo" <=> last.relates_to = <<"H2">>
    /\ last.failed => last.supersedes = <<>> /\ last.relates_to = <<>>
    /\ last.ret = "None" => edges = EmptyBag
    /\ (~last.failed /\ HasNode(nodes, "H2")) =>
         /\ last.ret = "Supersedes" =>
              \E e \in BagToSet(edges) : e.type = "SUPERSEDES" /\ e.src = "H1" /\ e.dst = "H2"
         /\ last.ret = "RelatesTo" =>
              \E e \in BagToSet(edges) : e.type = "RELATES_TO" /\ e.src = "H1" /\ e.dst = "H2"
    /\ _conn # 0

\* the score 0.75 classified in a sync on the empty store: the RELATES_TO
\* edge created from the new memory to the stub of the candidate
C4_Witness ==
  /\ pc = "done" /\ last.op = "classify" /\ req = 750000
  /\ last.F = {}
  /\ last.ret = "RelatesTo" /\ last.relates_to = <<"H2">>
  /\ \E n \in BagToSet(nodes) : n.hash = "H2" /\ n.memory_type = StubType
  /\ \E e \in BagToSet(edges) : e.type = "RELATES_TO" /\ e.src = "H1" /\ e.dst = "H2"

\* C5: a sync of an absent hash, the store not failing, returns node_created
\* true, supersedes and relates_to are the in-order hashes of the retained
\* candidates (the entries among the first five that are not the new hash)
\* scoring >= 0.90 and in [0.75, 0.90), and the edges it adds are one
\* SUPERSEDES edge per supersedes entry and one RELATES_TO edge per
\* relates_to entry, all from the new hash; the other candidates add none.
C5_SyncResult ==
  [][(pc = "call" /\ pc' = "done" /\ ~HasNode(nodes, req.content_hash)) =>
       LET h == req.content_hash
           kept == KeptOfFirstFive(req.similar_memories, h)
           sup == HashesOf(ScoredSupersedes(kept))
           rel == HashesOf(ScoredRelatesTo(kept))
           added == edges' (-) edges
       IN /\ last'.ret = TRUE
          /\ last'.supersedes = sup
          /\ last'.relates_to = rel
          /\ last'.contradicts = <<>>
          /\ BagCardinality(added) = Len(sup) + Len(rel)
          /\ \A e \in DOMAIN added : e.src = h
          /\ \A t \in SyncCandHashes :
               /\ EdgeCount(added, "SUPERSEDES", h, t) = Occurrences(sup, t)
               /\ EdgeCount(added, "RELATES_TO", h, t) = Occurrences(rel, t)]_vars

\* a sync that listed two different candidates in each class, in the order
\* of the list and not by hash, and passed over a low candidate
C5_Witness ==
  /\ pc = "done"
  /\ last.ret = TRUE
  /\ last.supersedes = <<"H3", "H2">>
  /\ last.relates_to = <<"H2", "H3">>
  /\ \E i \in 1..Len(FirstFive(req.similar_memories)) :
       /\ req.similar_memories[i][1] # req.content_hash
       /\ req.similar_memories[i][2] < 750000
  /\ BagCardinality(edges) = 4
  /\ \A t \in {"H2", "H3"} :
       /\ EdgeCount(edges, "SUPERSEDES", "H1", t) = 1
       /\ EdgeCount(edges, "RELATES_TO", "H1", t) = 1

\* C6: one sync adds at most 5 edges and lists at most 5 hashes, whatever the
\* length of the list and the scores; the edges go to candidates of the head
\* of the list: their number is the number of entries among the first five
\* that are not the new hash and score >= 0.75, and when the first five are
\* all such entries exactly those five are listed.
C6_Cap ==
  [][(pc = "call" /\ pc' = "done") =>
       LET h == req.content_hash
           head == FirstFive(req.similar_memories)
           scoring == SelectSeq(head, LAMBDA c : c[1] # h /\ c[2] >= 750000)
           added == edges' (-) edges
       IN /\ BagCardinality(added) <= 5
          /\ Len(last'.relates_to) + Len(last'.supersedes) <= 5
          /\ BagCardinality(added) = Len(scoring)
          /\ Len(last'.relates_to) + Len(last'.supersedes) = Len(scoring)
          /\ (Len(scoring) = 5) =>
               \A t \in SyncCandHashes :
                 Occurrences(last'.relates_to, t) + Occurrences(last'.supersedes, t)
                   = Occurrences(HashesOf(head), t)]_vars

\* a sync of seven candidates, all scoring >= 0.75, that added five edges
C6_Witness ==
  /\ pc = "done"
  /\ Len(req.similar_memories) = 7
  /\ \A i \in 1..7 : req.similar_memories[i][2] >= 750000
  /\ Len(last.relates_to) + Len(last.supersedes) = 5
  /\ BagCardinality(edges) = 5

\* C7 as stated: the retained candidates are the first five of the entries
\* that are not the new hash, so a self-candidate among the first five
\* positions leaves the sixth entry processed.
C7_SelfNotCounted ==
  pc = "done" /\ last.ret = TRUE =>
    LET kept == FirstFiveOfKept(req.similar_memories, req.content_hash) IN
    /\ last.supersedes = HashesOf(ScoredSupersedes(kept))
    /\ last.relates_to = HashesOf(ScoredRelatesTo(kept))

\* C7 as amended: a self-candidate is skipped but takes its place in the
\* slice: the retained candidates are the entries among the first five of the
\* raw list that are not the new hash, no entry from the sixth on is processed
\* (no edge, no listing, no stub), whether or not the first five hold the new
\* hash.
C7_SelfCounted ==
  [][(pc = "call" /\ pc' = "done" /\ last'.ret = TRUE) =>
       LET h == req.content_hash
           kept == KeptOfFirstFive(req.similar_memories, h)
       IN /\ last'.supersedes = HashesOf(ScoredSupersedes(kept))
          /\ last'.relates_to = HashesOf(ScoredRelatesTo(kept))
          /\ \A t \in SyncCandHashes \ {h} :
               HasNode(nodes', t) <=>
                 (HasNode(nodes, t) \/ Occurrences(HashesOf(kept), t) > 0)]_vars

\* a sync whose first five entries hold the new hash and whose sixth entry,
\* scoring >= 0.75, got neither a node nor an edge
C7_Witness ==
  /\ pc = "done"
  /\ last.ret = TRUE
  /\ Len(req.similar_memories) >= 6
  /\ \E i \in 1..5 : req.similar_memories[i][1] = req.content_hash
  /\ req.similar_memories[6][1] # req.content_hash
  /\ req.similar_memories[6][2] >= 750000
  /\ ~HasNode(nodes, req.similar_memories[6][1])
  /\ Len(last.relates_to) + Len(last.supersedes) < 5

\* C8: a sync never adds an edge to the new hash itself, never lists the new
\* hash in relates_to or supersedes, and never makes a stub of it, whatever
\* the score and the position of the self-candidate.
C8_SelfExclusion ==
  pc = "done" /\ last.op = "sync_with_provenance" =>
    LET h == req.content_hash IN
    /\ Occurrences(last.relates_to, h) = 0
    /\ Occurrences(last.supersedes, h) = 0
    /\ \A e \in DOMAIN edges : ~(e.src = h /\ e.dst = h)
    /\ \A n \in DOMAIN nodes : n.hash = h => n.memory_type # StubType
    /\ NodeCount(nodes, h) = 1

\* a sync whose list holds the new hash with a score >= 0.90
C8_Witness ==
  /\ pc = "done"
  /\ last.ret = TRUE
  /\ \E i \in 1..Len(FirstFive(req.similar_memories)) :
       /\ req.similar_memories[i][1] = req.content_hash
       /\ req.similar_memories[i][2] >= 900000
  /\ Len(last.relates_to) >= 1

\* C9: in every reachable state no edge has its source hash equal to its
\* target hash.
C9_NoSelfLoop == \A e \in DOMAIN edges : e.src # e.dst

\* C10: in every reachable state both endpoints of every edge are nodes of
\* the graph, also after edge calls on absent hashes and after syncs whose
\* stub creation failed.
C10_ReferentialIntegrity ==
  \A e \in DOMAIN edges : HasNode(nodes, e.src) /\ HasNode(nodes, e.dst)

\* a sync whose stub creation failed: the listed target is no node
C10_Witness ==
  /\ last.op = "sync_with_provenance"
  /\ last.failed
  /\ last.ret = TRUE
  /\ \/ Len(last.relates_to) >= 1 /\ ~HasNode(nodes, last.relates_to[1])
     \/ Len(last.supersedes) >= 1 /\ ~HasNode(nodes, last.supersedes[1])

\* the stub nodes of a node table
Stubs(ns) == {n \in DOMAIN ns : n.memory_type = StubType}

\* C13: in every state reached through sync_with_provenance calls without a
\* store failure, every node of memory type "stub" is the target of at least
\* one edge; no stub is created for a candidate that gets no edge.
C13_StubsAreEdgeTargets ==
  pc = "done" /\ last.op = "sync_with_provenance" =>
    \A n \in Stubs(nodes) : \E e \in DOMAIN edges : e.dst = n.hash

\* the hashes of the slice of a sync that are not the new hash
Targets(cands, h) ==
  {cands[i][1] : i \in {j \in 1..Len(FirstFive(cands)) : cands[j][1] # h}}

\* the scores the slice gives to the hash t
ScoresOf(cands, t) ==
  {cands[i][2] : i \in {j \in 1..Len(FirstFive(cands)) : cands[j][1] = t}}

\* C11: a sync without a failing execution that creates its node leaves, for
\* every candidate of the slice whose hash had no node, exactly one stub
\* (memory type "stub", the placeholder preview, the current time), and the
\* edge to it when the score reaches 0.75: the edge query matched both
\* endpoints, so the new node and the stub were there before it ran.
\* ensure_node_exists on a hash that has a node creates nothing and returns
\* true.
C11_StubBeforeEdge ==
  [][/\ (last'.op = "sync_with_provenance" /\ ~last'.failed /\ last'.ret = TRUE) =>
          /\ HasNode(nodes', req'.hash)
          /\ \A t \in Targets(req'.similar_memories, req'.hash) :
               ~HasNode(nodes, t) =>
                 /\ nodes'[MemoryNode(t, StubPreview, 2, StubType)] = 1
                 /\ NodeCount(nodes', t) = 1
                 /\ \A x \in ScoresOf(req'.similar_memories, t) :
                      x >= RELATES_TO_THRESHOLD =>
                        \E e \in DOMAIN edges' : e.src = req'.hash /\ e.dst = t
     /\ (last'.op = "ensure_node_exists" /\ ~last'.failed /\ HasNode(nodes, req'.hash)) =>
          /\ last'.ret = TRUE
          /\ nodes' = nodes
          /\ edges' = edges]_vars

\* after a sync a stub made by this call (its timestamp is the call's time)
\* is the target of an edge from the new node
C11_Witness ==
  /\ pc = "done"
  /\ last.op = "sync_with_provenance"
  /\ ~last.failed
  /\ last.ret = TRUE
  /\ \E n \in Stubs(nodes) :
       /\ n.created_at = 2
       /\ \E e \in DOMAIN edges : e.src = last.hash /\ e.dst = n.hash

\* C12: a stub is never upgraded. Every call leaves every stub record as it
\* is (same memory type, preview and timestamp, still the only record of its
\* hash), and add_memory_node or sync_with_provenance on the hash of a stub
\* returns false / node_created = false, whether or not an execution fails.
C12_StubNeverUpgraded ==
  [][\A n \in Stubs(nodes) :
       /\ n \in DOMAIN nodes'
       /\ nodes'[n] = nodes[n]
       /\ NodeCount(nodes', n.hash) = NodeCount(nodes, n.hash)
       /\ (last'.op \in {"add_memory_node", "sync_with_provenance"}
             /\ req'.hash = n.hash) => last'.ret = FALSE]_vars

\* a sync or an add_memory_node on the hash of a stub has returned, after its
\* existence probe raised and the creation was attempted
C12_Witness ==
  /\ pc = "done"
  /\ last.op \in {"add_memory_node", "sync_with_provenance"}
  /\ 1 \in req.F
  /\ 2 \notin req.F
  /\ last.ret = FALSE
  /\ \E n \in Stubs(nodes) : n.hash = req.hash /\ n.created_at = 1

\* C14: the connection starts Closed; a call issued while no connection is
\* held opens one before it executes, and the handle is one never used
\* before; a call issued while a connection is held keeps the same handle;
\* close() always ends with no handle held, also when none was held.
C14_ConnectionStateMachine ==
  /\ Closed
  /\ [][/\ (last'.op \in {"node_exists", "add_relates_to"} /\ req'.outcome = "ok") =>
             /\ _conn' # 0
             /\ _db' # 0
             /\ _conn # 0 => (_conn' = _conn /\ _db' = _db /\ opened' = opened)
             /\ _conn = 0 => (_conn' > opened /\ _db' > opened /\ opened' = _conn')
        /\ last'.op = "close" => (_conn' = 0 /\ _db' = 0)]_vars

\* a call after a close has re-opened the store: the second handle is held
C14_Witness ==
  /\ last.op \in {"node_exists", "add_relates_to"}
  /\ req.held = 0
  /\ _conn = 2
  /\ _db = 2

\* C15: when a with-block ends, by normal return or by an exception of its
\* body, no handle is held afterwards, and the exception of the body is
\* propagated, not suppressed.
C15_ScopedSession ==
  [][(pc = "with" /\ pc' = "run") =>
       /\ _conn' = 0
       /\ _db' = 0
       /\ last'.exc = req'.raised]_vars

\* a with-block whose body raised while the connection was open has ended
C15_Witness ==
  /\ pc = "run"
  /\ last.op = "__exit__"
  /\ last.exc = TRUE
  /\ req.held # 0
  /\ Closed

\* the operations that issue a single query and return a boolean
OneQueryOps == {"node_exists", "add_relates_to", "add_supersedes", "add_contradicts"}

\* the operations that probe for the node and then create it
ProbeThenCreateOps == {"add_memory_node", "ensure_node_exists"}

\* C16 as stated: no call ends with an exception, and a call in which any
\* execution failed returns its sentinel: false for node_exists,
\* add_memory_node, the edge operations and ensure_node_exists, the empty
\* list for get_provenance_chain, the error-marked result for get_stats.
C16_FailureGivesSentinel ==
  (pc = "done" /\ last.failed) =>
    /\ last.exc = FALSE
    /\ last.op \in OneQueryOps \cup ProbeThenCreateOps => last.ret = FALSE
    /\ last.op = "get_provenance_chain" => last.ret = <<>>
    /\ last.op = "get_stats" => last.ret = ErrorStats

\* C16, amended: no call ends with an exception. A failed query gives false
\* from node_exists and the edge operations, the empty list from
\* get_provenance_chain and the error-marked result from get_stats.
\* add_memory_node and ensure_node_exists (and the node creation of a sync)
\* give false when their create query fails; when only their existence probe
\* fails they read it as "absent", go on to the create query, and return
\* true exactly when that query creates the node.
C16_NoExceptionEscapes ==
  pc = "done" =>
    /\ last.exc = FALSE
    /\ last.failed =>
         /\ last.op \in OneQueryOps => last.ret = FALSE
         /\ last.op = "get_provenance_chain" => last.ret = <<>>
         /\ last.op = "get_stats" => last.ret = ErrorStats
         /\ last.op \in ProbeThenCreateOps \cup {"sync_with_provenance"} =>
              /\ 2 \in req.F => last.ret = FALSE
              /\ last.ret = TRUE => NodeCount(nodes, req.hash) = 1

\* ensure_node_exists has returned true although its existence probe raised
C16_Witness ==
  /\ pc = "done"
  /\ last.op = "ensure_node_exists"
  /\ req.F = {1}
  /\ last.failed
  /\ last.ret = TRUE
  /\ \E n \in Stubs(nodes) : n.hash = req.hash /\ n.created_at = 2

\* the candidates of the slice that are not the new hash and reach 0.75
Classified(cands, h) ==
  {i \in 1..Len(FirstFive(cands)) :
     cands[i][1] # h /\ cands[i][2] >= RELATES_TO_THRESHOLD}

\* C17: in a sync that creates its node, a candidate whose stub or edge could
\* not be created is in neither result list (a listed target is a node and
\* has its edges from the new node, as many as it has entries), and one
\* failing execution does not end the loop: at most the one candidate it
\* belongs to is missing from the result lists.
C17_FailureOmitsCandidate ==
  [][(pc = "call" /\ last'.op = "sync_with_provenance" /\ last'.ret = TRUE) =>
       LET h == req'.hash
           cands == req'.similar_memories
           added == edges' (-) edges
       IN /\ \A t \in Targets(cands, h) :
               /\ ~HasNode(nodes', t) =>
                    /\ Occurrences(last'.relates_to, t) = 0
                    /\ Occurrences(last'.supersedes, t) = 0
               /\ Occurrences(last'.relates_to, t) = EdgeCount(added, "RELATES_TO", h, t)
               /\ Occurrences(last'.supersedes, t) = EdgeCount(added, "SUPERSEDES", h, t)
          /\ Cardinality(req'.F) = 1 =>
               Len(last'.relates_to) + Len(last'.supersedes)
                 >= Cardinality(Classified(cands, h)) - 1]_vars

\* the edges of one type, counted pair of endpoints by pair of endpoints
RECURSIVE EdgesBetween(_, _, _)
EdgesBetween(es, type, pairs) ==
  IF pairs = {} THEN 0
  ELSE LET p == CHOOSE x \in pairs : TRUE
       IN EdgeCount(es, type, p[1], p[2]) + EdgesBetween(es, type, pairs \ {p})

\* the nodes, counted hash by hash
RECURSIVE NodesAmong(_, _)
NodesAmong(ns, hs) ==
  IF hs = {} THEN 0
  ELSE LET h == CHOOSE x \in hs : TRUE
       IN NodeCount(ns, h) + NodesAmong(ns, hs \ {h})

\* C18: get_stats is all-or-error. Without a failing query it returns the
\* number of nodes, for each of the five relationship types the number of
\* edges of that type, and total_edges equal to the sum of the five; when a
\* query fails it returns the error marker alone, with no count.
C18_StatsAllOrError ==
  (pc = "done" /\ last.op = "get_stats") =>
    IF last.failed THEN DOMAIN last.ret = {"error"}
    ELSE LET pairs == CallHashes \X CallHashes
             s == last.ret
         IN /\ DOMAIN s = {"nodes", "edges_relates_to", "edges_supersedes",
                           "edges_contradicts", "edges_caused_by",
                           "edges_derived_from", "total_edges"}
            /\ s.nodes = NodesAmong(nodes, CallHashes)
            /\ s.edges_relates_to = EdgesBetween(edges, "RELATES_TO", pairs)
            /\ s.edges_supersedes = EdgesBetween(edges, "SUPERSEDES", pairs)
            /\ s.edges_contradicts = EdgesBetween(edges, "CONTRADICTS", pairs)
            /\ s.edges_caused_by = EdgesBetween(edges, "CAUSED_BY", pairs)
            /\ s.edges_derived_from = EdgesBetween(edges, "DERIVED_FROM", pairs)
            /\ s.total_edges = s.edges_relates_to + s.edges_supersedes
                                 + s.edges_contradicts + s.edges_caused_by
                                 + s.edges_derived_from
            /\ s.total_edges = BagCardinality(edges)

\* the stats of a graph of two nodes with edges of two types are returned
C18_Witness ==
  /\ pc = "done"
  /\ last.op = "get_stats"
  /\ ~last.failed
  /\ last.ret.total_edges = 2
  /\ last.ret.edges_supersedes = 1
  /\ last.ret.edges_contradicts = 1
  /\ last.ret.nodes = 2

\* the operations that only read
ReadOps == {"node_exists", "get_provenance_chain", "get_stats"}

\* C20: the graph only grows. Every call, failing or not, leaves every node
\* record and every edge record it found, with the same attributes and at
\* least as many copies, and node_exists, get_provenance_chain and get_stats
\* leave both tables as they were.
C20_GraphOnlyGrows ==
  [][/\ nodes \sqsubseteq nodes'
     /\ edges \sqsubseteq edges'
     /\ last'.op \in ReadOps => (nodes' = nodes /\ edges' = edges)]_vars

\* an edge has been added to a graph that already held two
C20_Witness ==
  /\ pc = "done"
  /\ last.op = "add_supersedes"
  /\ last.ret = TRUE
  /\ BagCardinality(edges) = 3

\* the SUPERSEDES and RELATES_TO edges from a to b
Links(es, a, b) == EdgeCount(es, "SUPERSEDES", a, b) + EdgeCount(es, "RELATES_TO", a, b)

\* the number of paths of n hops from a to b over SUPERSEDES and RELATES_TO
\* edges, counted from the first hop on
RECURSIVE PathCount(_, _, _, _)
RECURSIVE PathsVia(_, _, _, _, _)
PathsVia(es, a, b, n, mids) ==
  IF mids = {} THEN 0
  ELSE LET m == CHOOSE x \in mids : TRUE
       IN Links(es, a, m) * PathCount(es, m, b, n - 1) + PathsVia(es, a, b, n, mids \ {m})

PathCount(es, a, b, n) ==
  IF n = 1 THEN Links(es, a, b) ELSE PathsVia(es, a, b, n, ChainHashes)

\* the chain H1 -> H2 -> H3 -> H4 of SUPERSEDES edges
SupersedesChain ==
  SetToBag({Edge("SUPERSEDES", "H1", "H2", 0, HighSimilarityReason, 1),
            Edge("SUPERSEDES", "H2", "H3", 0, HighSimilarityReason, 1),
            Edge("SUPERSEDES", "H3", "H4", 0, HighSimilarityReason, 1)})

\* C19: get_provenance_chain(H, d) returns one entry per path of 1..d hops
\* that leaves H over SUPERSEDES and RELATES_TO edges only, each with the
\* hash (and preview) of the node reached and the number of hops as depth,
\* by non-decreasing depth and none deeper than d; on the SUPERSEDES chain
\* H1 -> H2 -> H3 -> H4 the call (H1, 3) gives H2, H3, H4 at depths 1, 2, 3;
\* when the query fails the result is the empty list.
C19_ProvenanceChain ==
  (pc = "done" /\ last.op = "get_provenance_chain") =>
    LET chain == last.ret IN
    IF last.failed THEN chain = <<>>
    ELSE /\ \A i \in 1..Len(chain) :
              /\ chain[i].depth \in 1..req.depth
              /\ chain[i].hash \in ChainHashes
              /\ chain[i].preview = PreviewOf(nodes, chain[i].hash)
              /\ \A j \in 1..Len(chain) : i < j => chain[i].depth <= chain[j].depth
         /\ \A t \in ChainHashes, n \in 1..req.depth :
              Cardinality({i \in 1..Len(chain) : chain[i].hash = t /\ chain[i].depth = n})
                = PathCount(edges, req.hash, t, n)
         /\ (edges = SupersedesChain /\ req.hash = "H1" /\ req.depth = 3) =>
              /\ [i \in 1..Len(chain) |-> chain[i].hash] = <<"H2", "H3", "H4">>
              /\ [i \in 1..Len(chain) |-> chain[i].depth] = <<1, 2, 3>>

\* a walk to depth 2 on a graph with two paths to H3, one of them of two
\* hops, and a CONTRADICTS edge to H4 has returned two entries
C19_Witness ==
  /\ pc = "done"
  /\ last.op = "get_provenance_chain"
  /\ ~last.failed
  /\ req.hash = "H1"
  /\ req.depth = 2
  /\ EdgeCount(edges, "RELATES_TO", "H1", "H2") = 1
  /\ EdgeCount(edges, "SUPERSEDES", "H2", "H3") = 1
  /\ EdgeCount(edges, "CONTRADICTS", "H1", "H4") = 1
  /\ Len(last.ret) = 2
  /\ last.ret[2].hash = "H3"
  /\ last.ret[2].depth = 2

\* the characters of a text
CharsOf(t) == {t[i] : i \in 1..Len(t)}

\* ' " ` and \
QuoteChars == {39, 34, 96, 92}

\* the ASCII control characters: 0..31 and DEL
AsciiControls == (0..31) \cup {127}

\* C22 as stated: for every text and every max_len the output holds no
\* quote, backtick, backslash or ASCII control character, is at most max_len
\* long, is empty when the input is empty or absent, and sanitizing the
\* output again with the same max_len returns it unchanged.
C22_SanitizerAsStated ==
  /\ pc = "done" =>
       /\ CharsOf(last.ret) \cap (QuoteChars \cup AsciiControls) = {}
       /\ Len(last.ret) <= req.max_len
       /\ req.s = <<>> => last.ret = <<>>
  /\ pc = "again" => last.ret = last.first

\* C22, amended: the output holds no quote, backtick or backslash and no
\* character of the range 0..31 (each of those is replaced by a space; DEL
\* is kept); it is empty when the input is empty or absent; and for a
\* max_len >= 0 it is at most max_len long and sanitizing it again with the
\* same max_len returns it unchanged.
C22_Sanitizer ==
  /\ pc = "done" =>
       /\ CharsOf(last.ret) \cap (QuoteChars \cup (0..31)) = {}
       /\ req.max_len >= 0 => Len(last.ret) <= req.max_len
       /\ req.s = <<>> => last.ret = <<>>
       /\ Len(last.ret) <= Len(req.s)
  /\ (pc = "again" /\ req.max_len >= 0) => last.ret = last.first

\* a text with a quote, a line feed and DEL, cut to two characters, has been
\* sanitized twice
C22_Witness ==
  /\ pc = "again"
  /\ req.s = <<39, 10, 127>>
  /\ req.max_len = 2
  /\ last.first = <<32>>
  /\ last.ret = <<32>>

\* C24: in every state between calls a held connection comes with a held
\* database handle, and when no connection is held no database handle is
\* retained, also after an open in which the Database was made and the
\* Connection constructor raised.
C24_HandleConsistency ==
  /\ _conn # 0 => _db # 0
  /\ _conn = 0 => _db = 0

\* the operations that create one edge
EdgeOps == {"add_relates_to", "add_supersedes", "add_contradicts"}

\* C23: after a sync, whatever failed in it, every hash of the returned
\* supersedes list is the target of a SUPERSEDES edge from the new hash that
\* is in the graph, and every hash of the relates_to list the target of a
\* RELATES_TO edge; and an edge operation that returns true has added its
\* edge to the graph.
C23_ResultGraphAgreement ==
  [][/\ (pc = "call" /\ last'.op = "sync_with_provenance") =>
          /\ \A i \in 1..Len(last'.supersedes) :
               EdgeCount(edges', "SUPERSEDES", req'.hash, last'.supersedes[i]) >= 1
          /\ \A i \in 1..Len(last'.relates_to) :
               EdgeCount(edges', "RELATES_TO", req'.hash, last'.relates_to[i]) >= 1
     /\ (pc = "call" /\ last'.op \in EdgeOps /\ last'.ret = TRUE) =>
          BagCardinality(edges') = BagCardinality(edges) + 1]_vars

\* the callers that found no node and are about to create it or have issued
\* the create
PassedCheck == {c \in Callers : pc[c] = "create" \/ last[c].issued}

\* C21: when every operation runs inside the critical section of the store,
\* no state is reachable in which two callers have both passed the existence
\* check for the same hash; without the critical section such a state is
\* reachable, and both callers issue the create.
C21_CriticalSectionExcludesRace ==
  req.exclusive =>
    /\ \A c \in Callers, d \in Callers :
         (c # d /\ c \in PassedCheck /\ d \in PassedCheck) =>
           req.calls[c].hash # req.calls[d].hash
    /\ \A c \in Callers : holder = c => pc[c] \in InCall
    /\ \A c \in Callers : pc[c] \in InCall => holder = c

\* without the critical section both callers found H1 absent and both
\* issued the create: the second create failed on the primary key
C21_Witness ==
  /\ ~req.exclusive
  /\ req.calls[1].hash = "H1"
  /\ req.calls[2].hash = "H1"
  /\ last[1].issued
  /\ last[2].issued
  /\ pc[1] = "done"
  /\ pc[2] = "done"
  /\ last[1].ret # last[2].ret
  /\ NodeCount(nodes, "H1") = 1

====
